---- MODULE Spec2Model ----
(***************************************************************************)
(* Model of oio/cli/container/container.py: the container and bucket       *)
(* commands of the OpenIO SDS command line.  Every command is a handler    *)
(* (take_action) that turns parsed arguments into calls on the storage     *)
(* client.  One behaviour of the model is one command invocation: the      *)
(* arguments are parsed (Invoke), then the handler runs, one storage-      *)
(* client call per step, until it returns or an exception leaves it.       *)
(*                                                                         *)
(* The storage client is external: each of its calls either returns (any   *)
(* value it may return) or raises (any of Errors).                         *)
(*                                                                         *)
(* Python's None is modelled by None for values that are otherwise strings *)
(* and by Nil for values that are otherwise integers, booleans or dicts    *)
(* (a present value v of those kinds is Some(v)).                          *)
(***************************************************************************)
EXTENDS Integers, Sequences, FiniteSets, TLC

VARIABLES
    pc,      \* position of the running handler ("idle" before, "done" after)
    args,    \* parsed_args of the invocation
    local,   \* local variables of the running handler
    calls,   \* storage-client calls issued so far, in order, with what each returned
    rows,    \* rows produced by the command so far
    raised,  \* the exception that left take_action, or None
    client   \* state held by the storage backend (user properties of the container)

vars == <<pc, args, local, calls, rows, raised, client>>

----------------------------------------------------------------------------
(* Bounds of the model *)

\* longest batch of container names given to create, touch or delete
MaxBatch == 2
\* most non-empty pages the backend returns to one listing
MaxPages == 2
\* longest page (and most objects of a saved container)
MaxPageLen == 2
\* most buckets the account service lists
MaxBuckets == 2

----------------------------------------------------------------------------
(* Python values *)

None == "<None>"
Nil == <<>>
Some(v) == <<v>>
\* the value held by a present optional
Val(o) == o[1]

\* no arguments parsed yet, no local variable bound yet
NoArgs == [parsed |-> FALSE]
NoLocals == [bound |-> FALSE]

\* truth value of an optional string: None and "" are false
Truthy(s) == s # None /\ s # ""

EmptyMap == [x \in {} |-> ""]
\* d[k] = v
MapSet(d, k, v) == [x \in (DOMAIN d) \cup {k} |-> IF x = k THEN v ELSE d[x]]
\* dict.update
MapUpdate(d, e) == [x \in (DOMAIN d) \cup (DOMAIN e) |-> IF x \in DOMAIN e THEN e[x] ELSE d[x]]

Digit(d) == <<"0", "1", "2", "3", "4", "5", "6", "7", "8", "9">>[d + 1]
RECURSIVE StrNat(_)
StrNat(n) == IF n < 10 THEN Digit(n) ELSE StrNat(n \div 10) \o Digit(n % 10)
\* str(n) of an integer
Str(n) == IF n < 0 THEN "-" \o StrNat(0 - n) ELSE StrNat(n)
\* int(b) of a boolean
IntOfBool(b) == IF b THEN 1 ELSE 0

\* non-empty sequences over S of length at most n
SeqsUpTo(S, n) == UNION {[1..k -> S] : k \in 1..n}

----------------------------------------------------------------------------
(* Names imported from oio.common.constants *)

M2_PROP_BUCKET_NAME == "sys.m2.bucket.name"
M2_PROP_QUOTA == "sys.m2.quota"
M2_PROP_STORAGE_POLICY == "sys.m2.policy.storage"
M2_PROP_VERSIONING_POLICY == "sys.m2.policy.version"
M2_PROP_DEL_EXC_VERSIONS == "sys.m2.policy.version.delete_exceeding"
\* str(OIO_DB_ENABLED), str(OIO_DB_DISABLED), str(OIO_DB_FROZEN)
OIO_DB_ENABLED == "str(OIO_DB_ENABLED)"
OIO_DB_DISABLED == "str(OIO_DB_DISABLED)"
OIO_DB_FROZEN == "str(OIO_DB_FROZEN)"

\* self.app.client_manager.account
Account == "myaccount"

----------------------------------------------------------------------------
(* The storage client *)

\* exceptions a storage-client call may raise
Errors == {"NoSuchContainer", "OioException"}
\* a call returns ("ok") or raises
Outcomes == {"ok"} \cup Errors

\* record of a call: what was asked, and how it ended
Issued(call, outcome) == [call EXCEPT !.outcome = outcome]

\* the backend's container_set_properties: with clear, the user properties
\* become the new map; without, the new map is merged into them
container_set_properties(props, new, clear) ==
    LET given == IF new = Nil THEN EmptyMap ELSE Val(new)
    IN  IF clear THEN given ELSE MapUpdate(props, given)

\* the backend's container_create_many: one (name, created) pair per name, in order
container_create_many(containers, created) ==
    [i \in 1..Len(containers) |-> <<containers[i], created[i]>>]

----------------------------------------------------------------------------
(* Inputs: what the argument parsers can produce *)

Idents == {"c1", "c2"}
IntArgs == {0 - 1, 0, 1, 12}
QuotaArgs == {0 - 1, 0, 1024}
PropertyArgs == {Nil, Some(EmptyMap), Some([k \in {"k1"} |-> "new"])}
StatusArgs == {None, "enabled", "disabled", "frozen", "bogus"}

\* SetPropertyCommandMixin.patch_parser: --property, --quota, --storage-policy,
\* --max-versions, --delete-exceeding-versions
SetPropertyArgs ==
    [property : PropertyArgs,
     quota : {Nil} \cup {Some(n) : n \in QuotaArgs},
     storage_policy : {None, "EC"},
     max_versions : {Nil} \cup {Some(n) : n \in IntArgs},
     delete_exceeding_versions : {Nil, Some(TRUE), Some(FALSE)}]

\* ContainerCommandMixin.patch_parser_container: --cid and <container>
ContainerArgs == [is_cid : BOOLEAN, container : Idents]

\* ContainersCommandMixin.patch_parser_container: --cid and <containers>+
ContainersArgs == [is_cid : BOOLEAN, containers : SeqsUpTo(Idents, MaxBatch)]

\* r extended with the fields of s
Merge(r, s) == [f \in (DOMAIN r) \cup (DOMAIN s) |-> IF f \in DOMAIN s THEN s[f] ELSE r[f]]
Product(R, S) == {Merge(r, s) : r \in R, s \in S}

----------------------------------------------------------------------------
(* ContainerCommandMixin *)

take_action_container_NoSwap(parsed_args) ==
    LET a == Merge(parsed_args, [cid |-> None])
    IN  IF a.is_cid THEN [a EXCEPT !.cid = a.container] ELSE a

take_action_container(parsed_args) ==
    LET a == Merge(parsed_args, [cid |-> None])
    IN  IF a.is_cid
        THEN [a EXCEPT !.cid = a.container, !.container = None]
        ELSE a

----------------------------------------------------------------------------
(* CreateContainer *)

CreateContainer_args ==
    Product(SetPropertyArgs,
            [bucket_name : {None, "", "b1"},
             containers : SeqsUpTo(Idents, MaxBatch)])

CreateContainer_system_Truthy(a) ==
    LET s0 == EmptyMap
        s1 == IF Truthy(a.bucket_name)
              THEN MapSet(s0, M2_PROP_BUCKET_NAME, a.bucket_name) ELSE s0
        s2 == IF a.quota # Nil /\ Val(a.quota) # 0
              THEN MapSet(s1, M2_PROP_QUOTA, Str(Val(a.quota))) ELSE s1
        s3 == IF a.storage_policy # None
              THEN MapSet(s2, M2_PROP_STORAGE_POLICY, a.storage_policy) ELSE s2
        s4 == IF a.max_versions # Nil /\ Val(a.max_versions) # 0
              THEN MapSet(s3, M2_PROP_VERSIONING_POLICY, Str(Val(a.max_versions)))
              ELSE s3
        s5 == IF a.delete_exceeding_versions # Nil
              THEN MapSet(s4, M2_PROP_DEL_EXC_VERSIONS,
                          Str(IntOfBool(Val(a.delete_exceeding_versions))))
              ELSE s4
    IN  s5

\* the system map built from the flags (lines 146-157)
CreateContainer_system(a) ==
    LET s0 == EmptyMap
        s1 == IF Truthy(a.bucket_name)
              THEN MapSet(s0, M2_PROP_BUCKET_NAME, a.bucket_name) ELSE s0
        s2 == IF a.quota # Nil
              THEN MapSet(s1, M2_PROP_QUOTA, Str(Val(a.quota))) ELSE s1
        s3 == IF a.storage_policy # None
              THEN MapSet(s2, M2_PROP_STORAGE_POLICY, a.storage_policy) ELSE s2
        s4 == IF a.max_versions # Nil
              THEN MapSet(s3, M2_PROP_VERSIONING_POLICY, Str(Val(a.max_versions)))
              ELSE s3
        s5 == IF a.delete_exceeding_versions # Nil
              THEN MapSet(s4, M2_PROP_DEL_EXC_VERSIONS,
                          Str(IntOfBool(Val(a.delete_exceeding_versions))))
              ELSE s4
    IN  s5

CreateContainer_call_AlwaysMany(a) ==
    [op |-> "container_create_many", account |-> Account,
     containers |-> a.containers, properties |-> a.property,
     system |-> CreateContainer_system(a), ret |-> Nil, outcome |-> None]

CreateContainer_call_DropFirst(a) ==
    IF Len(a.containers) > 1
    THEN [op |-> "container_create_many", account |-> Account,
          containers |-> Tail(a.containers), properties |-> a.property,
          system |-> CreateContainer_system(a), ret |-> Nil, outcome |-> None]
    ELSE [op |-> "container_create", account |-> Account,
          container |-> a.containers[1], properties |-> a.property,
          system |-> CreateContainer_system(a), ret |-> Nil, outcome |-> None]

\* the one storage-client call of create (lines 161-174)
CreateContainer_call(a) ==
    IF Len(a.containers) > 1
    THEN [op |-> "container_create_many", account |-> Account,
          containers |-> a.containers, properties |-> a.property,
          system |-> CreateContainer_system(a), ret |-> Nil, outcome |-> None]
    ELSE [op |-> "container_create", account |-> Account,
          container |-> a.containers[1], properties |-> a.property,
          system |-> CreateContainer_system(a), ret |-> Nil, outcome |-> None]

\* lines 159-177: the call is made; what it returned (ret) becomes the rows,
\* as it is for container_create_many, paired with the name for
\* container_create
CreateContainer_take_action ==
    /\ pc = "CreateContainer"
    /\ LET call == CreateContainer_call(args)
       IN  \E outcome \in Outcomes :
             IF outcome # "ok"
             THEN /\ calls' = Append(calls, Issued(call, outcome))
                  /\ raised' = outcome
                  /\ rows' = rows
             ELSE /\ raised' = None
                  /\ IF call.op = "container_create_many"
                     THEN \E created \in [1..Len(call.containers) -> BOOLEAN] :
                            LET results ==
                                  container_create_many(call.containers, created)
                            IN  /\ calls' = Append(calls,
                                      [call EXCEPT !.outcome = "ok",
                                                   !.ret = Some(results)])
                                /\ rows' = results
                     ELSE \E success \in BOOLEAN :
                            /\ calls' = Append(calls,
                                  [call EXCEPT !.outcome = "ok",
                                               !.ret = Some(success)])
                            /\ rows' = <<<<call.container, success>>>>
    /\ pc' = "done"
    /\ UNCHANGED <<args, local, client>>

----------------------------------------------------------------------------
(* SetContainer *)

SetContainer_args ==
    Product(Product(SetPropertyArgs, ContainerArgs),
            [bucket_name : {None, "", "b1"},
             clear : BOOLEAN,
             status : StatusArgs])

\* status_value (lines 268-272)
status_value ==
    [enabled |-> OIO_DB_ENABLED, disabled |-> OIO_DB_DISABLED, frozen |-> OIO_DB_FROZEN]

SetContainer_system_TruthyQuota(a) ==
    LET s0 == EmptyMap
        s1 == IF Truthy(a.bucket_name)
              THEN MapSet(s0, M2_PROP_BUCKET_NAME, a.bucket_name) ELSE s0
        s2 == IF a.quota # Nil /\ Val(a.quota) # 0
              THEN MapSet(s1, M2_PROP_QUOTA, Str(Val(a.quota))) ELSE s1
        s3 == IF a.storage_policy # None
              THEN MapSet(s2, M2_PROP_STORAGE_POLICY, a.storage_policy) ELSE s2
        s4 == IF a.max_versions # Nil
              THEN MapSet(s3, M2_PROP_VERSIONING_POLICY, Str(Val(a.max_versions)))
              ELSE s3
        s5 == IF a.delete_exceeding_versions # Nil
              THEN MapSet(s4, M2_PROP_DEL_EXC_VERSIONS,
                          Str(IntOfBool(Val(a.delete_exceeding_versions))))
              ELSE s4
        s6 == IF a.status # None
              THEN MapSet(s5, "sys.status", status_value[a.status]) ELSE s5
    IN  s6

\* the system map built from the flags (lines 255-273); the lookup of an
\* unknown status raises KeyError, see SetContainer_take_action
SetContainer_system(a) ==
    LET s0 == EmptyMap
        s1 == IF Truthy(a.bucket_name)
              THEN MapSet(s0, M2_PROP_BUCKET_NAME, a.bucket_name) ELSE s0
        s2 == IF a.quota # Nil
              THEN MapSet(s1, M2_PROP_QUOTA, Str(Val(a.quota))) ELSE s1
        s3 == IF a.storage_policy # None
              THEN MapSet(s2, M2_PROP_STORAGE_POLICY, a.storage_policy) ELSE s2
        s4 == IF a.max_versions # Nil
              THEN MapSet(s3, M2_PROP_VERSIONING_POLICY, Str(Val(a.max_versions)))
              ELSE s3
        s5 == IF a.delete_exceeding_versions # Nil
              THEN MapSet(s4, M2_PROP_DEL_EXC_VERSIONS,
                          Str(IntOfBool(Val(a.delete_exceeding_versions))))
              ELSE s4
        s6 == IF a.status # None
              THEN MapSet(s5, "sys.status", status_value[a.status]) ELSE s5
    IN  s6

SetContainer_call_NoClear(a) ==
    [op |-> "container_set_properties", account |-> Account,
     container |-> a.container, properties |-> a.property,
     clear |-> FALSE, system |-> SetContainer_system(a),
     cid |-> a.cid, outcome |-> None]

\* the storage-client call of set (lines 275-282), a the arguments after
\* take_action_container
SetContainer_call(a) ==
    [op |-> "container_set_properties", account |-> Account,
     container |-> a.container, properties |-> a.property,
     clear |-> a.clear, system |-> SetContainer_system(a),
     cid |-> a.cid, outcome |-> None]

SetContainer_take_action ==
    /\ pc = "SetContainer"
    /\ LET a == take_action_container(args)
       IN  /\ args' = a
           /\ IF a.status # None /\ a.status \notin DOMAIN status_value
              THEN /\ raised' = "KeyError"
                   /\ UNCHANGED <<calls, client>>
              ELSE \E outcome \in Outcomes :
                     LET call == SetContainer_call(a)
                     IN  /\ calls' = Append(calls, Issued(call, outcome))
                         /\ raised' = IF outcome = "ok" THEN None ELSE outcome
                         /\ client' =
                              IF outcome = "ok"
                              THEN [client EXCEPT !.props =
                                      container_set_properties(@, call.properties,
                                                               call.clear)]
                              ELSE client
    /\ pc' = "done"
    /\ UNCHANGED <<local, rows>>

----------------------------------------------------------------------------
(* UnsetContainer *)

UnsetContainer_args ==
    Product(ContainerArgs,
            [bucket_name : BOOLEAN,
             property : {<<>>, <<"k1">>, <<"k1", "k2">>},
             storage_policy : BOOLEAN,
             max_versions : BOOLEAN,
             quota : BOOLEAN,
             delete_exceeding_versions : BOOLEAN])

UnsetContainer_system_NoQuota(a) ==
    LET s0 == EmptyMap
        s1 == IF a.bucket_name THEN MapSet(s0, M2_PROP_BUCKET_NAME, "") ELSE s0
        s2 == IF a.storage_policy THEN MapSet(s1, M2_PROP_STORAGE_POLICY, "") ELSE s1
        s3 == IF a.max_versions THEN MapSet(s2, M2_PROP_VERSIONING_POLICY, "") ELSE s2
        s5 == IF a.delete_exceeding_versions
              THEN MapSet(s3, M2_PROP_DEL_EXC_VERSIONS, "") ELSE s3
    IN  s5

\* the system map of the resets asked for (lines 702-712)
UnsetContainer_system(a) ==
    LET s0 == EmptyMap
        s1 == IF a.bucket_name THEN MapSet(s0, M2_PROP_BUCKET_NAME, "") ELSE s0
        s2 == IF a.storage_policy THEN MapSet(s1, M2_PROP_STORAGE_POLICY, "") ELSE s1
        s3 == IF a.max_versions THEN MapSet(s2, M2_PROP_VERSIONING_POLICY, "") ELSE s2
        s4 == IF a.quota THEN MapSet(s3, M2_PROP_QUOTA, "") ELSE s3
        s5 == IF a.delete_exceeding_versions
              THEN MapSet(s4, M2_PROP_DEL_EXC_VERSIONS, "") ELSE s4
    IN  s5

UnsetContainer_deletes_Always(properties, system) == TRUE

UnsetContainer_deletes_OnlyIfProperties(properties, system) ==
    properties # <<>>

\* whether container_del_properties is called (line 714)
UnsetContainer_deletes(properties, system) ==
    properties # <<>> \/ system = EmptyMap

\* the backend's container_del_properties: the listed keys are removed
container_del_properties(props, keys) ==
    [k \in (DOMAIN props) \ {keys[i] : i \in 1..Len(keys)} |-> props[k]]

\* lines 700-718: the arguments are resolved, the system map is built and
\* container_del_properties is called (or skipped)
UnsetContainer_take_action ==
    /\ pc = "UnsetContainer"
    /\ LET a == take_action_container(args)
           system == UnsetContainer_system(a)
           call == [op |-> "container_del_properties", account |-> Account,
                    container |-> a.container, properties |-> a.property,
                    cid |-> a.cid, outcome |-> None]
       IN  /\ args' = a
           /\ local' = [system |-> system]
           /\ IF UnsetContainer_deletes(a.property, system)
              THEN \E outcome \in Outcomes :
                     /\ calls' = Append(calls, Issued(call, outcome))
                     /\ raised' = IF outcome = "ok" THEN None ELSE outcome
                     /\ pc' = IF outcome = "ok" THEN "UnsetContainer_set" ELSE "done"
                     /\ client' =
                          IF outcome = "ok"
                          THEN [client EXCEPT !.props =
                                  container_del_properties(@, a.property)]
                          ELSE client
              ELSE /\ pc' = "UnsetContainer_set"
                   /\ UNCHANGED <<calls, raised, client>>
    /\ UNCHANGED rows

\* lines 719-723: container_set_properties is called with the system map,
\* if it is not empty
UnsetContainer_set ==
    /\ pc = "UnsetContainer_set"
    /\ LET call == [op |-> "container_set_properties", account |-> Account,
                    container |-> args.container, properties |-> Nil,
                    clear |-> FALSE, system |-> local.system,
                    cid |-> args.cid, outcome |-> None]
       IN  IF local.system # EmptyMap
           THEN \E outcome \in Outcomes :
                  /\ calls' = Append(calls, Issued(call, outcome))
                  /\ raised' = IF outcome = "ok" THEN None ELSE outcome
           ELSE UNCHANGED <<calls, raised>>
    /\ pc' = "done"
    /\ UNCHANGED <<args, local, rows, client>>

----------------------------------------------------------------------------
(* TouchContainer, DeleteContainer *)

TouchContainer_args == Product(ContainersArgs, [recompute : BOOLEAN])
DeleteContainer_args == ContainersArgs

TouchContainer_call_KeepsName(a, container) ==
    [op |-> "container_touch", account |-> Account, container |-> container,
     recompute |-> a.recompute, cid |-> IF a.is_cid THEN container ELSE None,
     outcome |-> None]

\* the call made for one member of the batch (lines 304-315)
TouchContainer_call(a, container) ==
    IF a.is_cid
    THEN [op |-> "container_touch", account |-> Account, container |-> None,
          recompute |-> a.recompute, cid |-> container, outcome |-> None]
    ELSE [op |-> "container_touch", account |-> Account, container |-> container,
          recompute |-> a.recompute, cid |-> None, outcome |-> None]

\* the call made for one member of the batch (lines 331-342)
DeleteContainer_call(a, container) ==
    IF a.is_cid
    THEN [op |-> "container_delete", account |-> Account, container |-> None,
          cid |-> container, outcome |-> None]
    ELSE [op |-> "container_delete", account |-> Account, container |-> container,
          cid |-> None, outcome |-> None]

BatchStep_Swallow(call, outcome, n) ==
    /\ calls' = Append(calls, Issued(call, outcome))
    /\ raised' = None
    /\ local' = [i |-> local.i + 1]
    /\ pc' = IF local.i = n THEN "done" ELSE pc

\* one turn of a for loop over n members whose body is the call: the call
\* returns and the loop goes on (or ends after the last member), or the call
\* raises and the exception leaves take_action
BatchStep(call, outcome, n) ==
    /\ calls' = Append(calls, Issued(call, outcome))
    /\ IF outcome = "ok"
       THEN /\ raised' = None
            /\ local' = [i |-> local.i + 1]
            /\ pc' = IF local.i = n THEN "done" ELSE pc
       ELSE /\ raised' = outcome
            /\ local' = local
            /\ pc' = "done"

\* the for loop is entered (<containers> holds at least one name)
TouchContainer_take_action ==
    /\ pc = "TouchContainer"
    /\ pc' = "TouchContainer_loop"
    /\ local' = [i |-> 1]
    /\ UNCHANGED <<args, calls, rows, raised, client>>

TouchContainer_loop ==
    /\ pc = "TouchContainer_loop"
    /\ \E outcome \in Outcomes :
         BatchStep(TouchContainer_call(args, args.containers[local.i]),
                   outcome, Len(args.containers))
    /\ UNCHANGED <<args, rows, client>>

DeleteContainer_take_action ==
    /\ pc = "DeleteContainer"
    /\ pc' = "DeleteContainer_loop"
    /\ local' = [i |-> 1]
    /\ UNCHANGED <<args, calls, rows, raised, client>>

DeleteContainer_loop ==
    /\ pc = "DeleteContainer_loop"
    /\ \E outcome \in Outcomes :
         BatchStep(DeleteContainer_call(args, args.containers[local.i]),
                   outcome, Len(args.containers))
    /\ UNCHANGED <<args, rows, client>>

----------------------------------------------------------------------------
(* Commands that resolve a CID to (account, name): flush, refresh, snapshot *)

\* what resolve_cid may return
ResolvedPairs == {<<acct, name>> : acct \in {Account, "other"}, name \in Idents}

ResolveStep_ConfiguredAccount(next) ==
    LET a == take_action_container(args)
        call == [op |-> "resolve_cid", cid |-> a.cid, ret |-> None, outcome |-> None]
    IN  /\ args' = a
        /\ IF a.cid = None
           THEN /\ local' = [account |-> Account, container |-> a.container]
                /\ pc' = next
                /\ UNCHANGED <<calls, raised>>
           ELSE \E outcome \in Outcomes :
                  IF outcome = "ok"
                  THEN \E pair \in ResolvedPairs :
                         /\ calls' = Append(calls, [call EXCEPT !.outcome = "ok",
                                                                !.ret = pair])
                         /\ local' = [account |-> Account, container |-> pair[2]]
                         /\ raised' = None
                         /\ pc' = next
                  ELSE /\ calls' = Append(calls, Issued(call, outcome))
                       /\ raised' = outcome
                       /\ local' = local
                       /\ pc' = "done"

\* lines 364-371, 885-892, 944-951: the arguments are resolved; without
\* --cid the configured account and the name are used, with it resolve_cid
\* is called; then the handler goes on at `next`
ResolveStep(next) ==
    LET a == take_action_container(args)
        call == [op |-> "resolve_cid", cid |-> a.cid, ret |-> None, outcome |-> None]
    IN  /\ args' = a
        /\ IF a.cid = None
           THEN /\ local' = [account |-> Account, container |-> a.container]
                /\ pc' = next
                /\ UNCHANGED <<calls, raised>>
           ELSE \E outcome \in Outcomes :
                  IF outcome = "ok"
                  THEN \E pair \in ResolvedPairs :
                         /\ calls' = Append(calls, [call EXCEPT !.outcome = "ok",
                                                                !.ret = pair])
                         /\ local' = [account |-> pair[1], container |-> pair[2]]
                         /\ raised' = None
                         /\ pc' = next
                  ELSE /\ calls' = Append(calls, Issued(call, outcome))
                       /\ raised' = outcome
                       /\ local' = local
                       /\ pc' = "done"

LastCall_Swallow(call) ==
    /\ \E outcome \in Outcomes :
         /\ calls' = Append(calls, Issued(call, outcome))
         /\ raised' = None
    /\ pc' = "done"

\* the last call of a handler: it returns, or raises
LastCall(call) ==
    /\ \E outcome \in Outcomes :
         /\ calls' = Append(calls, Issued(call, outcome))
         /\ raised' = IF outcome = "ok" THEN None ELSE outcome
    /\ pc' = "done"

FlushContainer_args == Product(ContainerArgs, [quick : BOOLEAN])

FlushContainer_take_action ==
    /\ pc = "FlushContainer"
    /\ ResolveStep("FlushContainer_flush")
    /\ UNCHANGED <<rows, client>>

\* lines 372-373
FlushContainer_flush ==
    /\ pc = "FlushContainer_flush"
    /\ LastCall([op |-> "container_flush", account |-> local.account,
                 container |-> local.container, fast |-> args.quick,
                 cid |-> None, outcome |-> None])
    /\ UNCHANGED <<args, local, rows, client>>

RefreshContainer_args == ContainerArgs

RefreshContainer_take_action ==
    /\ pc = "RefreshContainer"
    /\ ResolveStep("RefreshContainer_refresh")
    /\ UNCHANGED <<rows, client>>

\* lines 893-894
RefreshContainer_refresh ==
    /\ pc = "RefreshContainer_refresh"
    /\ LastCall([op |-> "container_refresh", account |-> local.account,
                 container |-> local.container, cid |-> None, outcome |-> None])
    /\ UNCHANGED <<args, local, rows, client>>

----------------------------------------------------------------------------
(* PurgeContainer *)

PurgeContainer_args ==
    Product(ContainerArgs, [max_versions : {Nil} \cup {Some(n) : n \in IntArgs}])

PurgeContainer_take_action ==
    /\ pc = "PurgeContainer"
    /\ LET a == take_action_container(args)
       IN  /\ args' = a
           /\ LastCall([op |-> "container_purge", account |-> Account,
                        container |-> a.container, maxvers |-> a.max_versions,
                        cid |-> a.cid, outcome |-> None])
    /\ UNCHANGED <<local, rows, client>>

----------------------------------------------------------------------------
(* SnapshotContainer *)

\* values of Timestamp().normal: seconds with five decimals, zero-padded
Timestamps == {"1600000000.00000", "1600000001.50000"}

\* timeout_to_deadline: the monotonic clock plus the timeout
timeout_to_deadline(timeout) == "monotonic_time()+" \o timeout

SnapshotContainer_args ==
    Product(ContainerArgs,
            [dst_account : {None, "", "dstacct"},
             dst_container : {None, "", "snap"},
             chunk_batch_size : {"100"},
             timeout : {"60.0"}])

SnapshotContainer_dst_account_Configured(a, account) ==
    IF Truthy(a.dst_account) THEN a.dst_account ELSE Account

\* parsed_args.dst_account or account (line 953)
SnapshotContainer_dst_account(a, account) ==
    IF Truthy(a.dst_account) THEN a.dst_account ELSE account

\* parsed_args.dst_container or (container + "-" + Timestamp().normal)
\* (lines 954-955)
SnapshotContainer_dst_container(a, container, normal) ==
    IF Truthy(a.dst_container) THEN a.dst_container
    ELSE container \o "-" \o normal

SnapshotContainer_take_action ==
    /\ pc = "SnapshotContainer"
    /\ ResolveStep("SnapshotContainer_snapshot")
    /\ UNCHANGED <<rows, client>>

\* lines 952-963
SnapshotContainer_snapshot ==
    /\ pc = "SnapshotContainer_snapshot"
    /\ \E normal \in Timestamps :
         LET dst_account == SnapshotContainer_dst_account(args, local.account)
             dst_container ==
                 SnapshotContainer_dst_container(args, local.container, normal)
             call == [op |-> "container_snapshot", account |-> local.account,
                      container |-> local.container, cid |-> None,
                      dst_account |-> dst_account, dst_container |-> dst_container,
                      batch_size |-> args.chunk_batch_size,
                      deadline |-> timeout_to_deadline(args.timeout),
                      outcome |-> None]
         IN  /\ local' = Merge(local, [normal |-> normal])
             /\ \E outcome \in Outcomes :
                  /\ calls' = Append(calls, Issued(call, outcome))
                  /\ raised' = IF outcome = "ok" THEN None ELSE outcome
                  /\ rows' = IF outcome = "ok"
                             THEN <<<<dst_account, dst_container, "OK">>>>
                             ELSE rows
    /\ pc' = "done"
    /\ UNCHANGED <<args, client>>

----------------------------------------------------------------------------
(* ShowContainer, LocateContainer *)

\* dict.get(key, default)
Get(d, k, default) == IF k \in DOMAIN d THEN d[k] ELSE default

\* OIO_DB_STATUS_NAME
OIO_DB_STATUS_NAME ==
    (OIO_DB_ENABLED :> "Enabled") @@ (OIO_DB_FROZEN :> "Frozen")
    @@ (OIO_DB_DISABLED :> "Disabled")

\* system properties container_get_properties may return
SystemData ==
    LET base == ("sys.account" :> Account) @@ ("sys.name" :> "BASE.1")
                @@ ("sys.user.name" :> "c1")
    IN  {base,
         MapUpdate(base, (M2_PROP_QUOTA :> "1024") @@ (M2_PROP_STORAGE_POLICY :> "EC")
                         @@ (M2_PROP_VERSIONING_POLICY :> "5")
                         @@ ("sys.status" :> OIO_DB_FROZEN)
                         @@ (M2_PROP_BUCKET_NAME :> "b1")
                         @@ (M2_PROP_DEL_EXC_VERSIONS :> "0")
                         @@ ("sys.peers" :> "m2a,m2b"))}

ShowContainer_args == ContainerArgs

\* the record shown (lines 440-463), without the counters (ctime, bytes_usage,
\* objects, damaged_objects, missing_chunks), which only pass through convert_size
ShowContainer_info(sys, properties) ==
    LET i0 == ("account" :> sys["sys.account"]) @@ ("base_name" :> sys["sys.name"])
              @@ ("container" :> sys["sys.user.name"])
              @@ ("quota" :> Get(sys, M2_PROP_QUOTA, "Namespace default"))
              @@ ("storage_policy" :>
                      Get(sys, M2_PROP_STORAGE_POLICY, "Namespace default"))
              @@ ("max_versions" :>
                      Get(sys, M2_PROP_VERSIONING_POLICY, "Namespace default"))
              @@ ("status" :>
                      Get(OIO_DB_STATUS_NAME, Get(sys, "sys.status", None), "Unknown"))
        i1 == IF M2_PROP_BUCKET_NAME \in DOMAIN sys
              THEN MapSet(i0, "bucket", sys[M2_PROP_BUCKET_NAME]) ELSE i0
        i2 == IF M2_PROP_DEL_EXC_VERSIONS \in DOMAIN sys
              THEN MapSet(i1, "delete_exceeding_versions",
                          IF sys[M2_PROP_DEL_EXC_VERSIONS] # "0" THEN "True" ELSE "False")
              ELSE i1
    IN  MapUpdate(i2, [k \in {"meta." \o p : p \in DOMAIN properties} |->
                         properties[CHOOSE p \in DOMAIN properties : "meta." \o p = k]])

ShowContainer_take_action ==
    /\ pc = "ShowContainer"
    /\ LET a == take_action_container(args)
           call == [op |-> "container_get_properties", account |-> Account,
                    container |-> a.container, cid |-> a.cid, outcome |-> None]
       IN  /\ args' = a
           /\ \E outcome \in Outcomes :
                /\ calls' = Append(calls, Issued(call, outcome))
                /\ raised' = IF outcome = "ok" THEN None ELSE outcome
                /\ IF outcome = "ok"
                   THEN \E sys \in SystemData :
                          rows' = <<ShowContainer_info(sys, client.props)>>
                   ELSE rows' = rows
    /\ pc' = "done"
    /\ UNCHANGED <<local, client>>

LocateContainer_args == ContainerArgs

\* what directory.list returns: the services of the container, by role
DirectoryData ==
    [srv |-> <<[type |-> "meta2", host |-> "m2a"], [type |-> "rawx", host |-> "rx"],
               [type |-> "meta2", host |-> "m2b"]>>,
     dir |-> <<[type |-> "meta0", host |-> "m0"], [type |-> "meta1", host |-> "m1a"],
               [type |-> "meta1", host |-> "m1b"]>>]

\* hosts of the services of one role, in order
HostsOf(services, type) ==
    SelectSeq(services, LAMBDA d : d.type = type)

\* ', '.join of the hosts
RECURSIVE JoinHosts(_)
JoinHosts(services) ==
    IF services = <<>> THEN ""
    ELSE IF Len(services) = 1 THEN services[1].host
    ELSE services[1].host \o ", " \o JoinHosts(Tail(services))

\* the record shown by locate (lines 784-811); the peers are the
\* comma-separated 'sys.peers' joined again with ', '
LocateContainer_info(m2_sys, data_dir) ==
    ("account" :> m2_sys["sys.account"]) @@ ("base_name" :> m2_sys["sys.name"])
    @@ ("name" :> m2_sys["sys.user.name"])
    @@ ("meta0" :> JoinHosts(HostsOf(data_dir.dir, "meta0")))
    @@ ("meta1" :> JoinHosts(HostsOf(data_dir.dir, "meta1")))
    @@ ("meta2" :> JoinHosts(HostsOf(data_dir.srv, "meta2")))
    @@ ("meta2.sys.peers" :>
            IF "sys.peers" \in DOMAIN m2_sys THEN "m2a, m2b" ELSE "Unknown")
    @@ ("status" :>
            Get(OIO_DB_STATUS_NAME, Get(m2_sys, "sys.status", None), "Unknown"))

\* lines 773-779: container_get_properties
LocateContainer_take_action ==
    /\ pc = "LocateContainer"
    /\ LET a == take_action_container(args)
           call == [op |-> "container_get_properties", account |-> Account,
                    container |-> a.container, cid |-> a.cid, outcome |-> None]
       IN  /\ args' = a
           /\ \E outcome \in Outcomes :
                /\ calls' = Append(calls, Issued(call, outcome))
                /\ raised' = IF outcome = "ok" THEN None ELSE outcome
                /\ pc' = IF outcome = "ok" THEN "LocateContainer_list" ELSE "done"
                /\ IF outcome = "ok"
                   THEN \E sys \in SystemData : local' = [m2_sys |-> sys]
                   ELSE local' = local
    /\ UNCHANGED <<rows, client>>

\* lines 781-811: directory.list, then the record
LocateContainer_list ==
    /\ pc = "LocateContainer_list"
    /\ LET call == [op |-> "directory.list", account |-> Account,
                    container |-> args.container, cid |-> args.cid, outcome |-> None]
       IN  \E outcome \in Outcomes :
             /\ calls' = Append(calls, Issued(call, outcome))
             /\ raised' = IF outcome = "ok" THEN None ELSE outcome
             /\ rows' = IF outcome = "ok"
                        THEN <<LocateContainer_info(local.m2_sys, DirectoryData)>>
                        ELSE rows
    /\ pc' = "done"
    /\ UNCHANGED <<args, local, client>>

----------------------------------------------------------------------------
(* SaveContainer *)

SaveContainer_args == ContainerArgs

\* names of the objects object_list may return
ObjectNames == <<"o1", "dir/o2", "o3", "o4">>

\* lines 740-746: object_list
SaveContainer_take_action ==
    /\ pc = "SaveContainer"
    /\ LET a == take_action_container(args)
           call == [op |-> "object_list", account |-> Account,
                    container |-> a.container, cid |-> a.cid, outcome |-> None]
       IN  /\ args' = a
           /\ \E outcome \in Outcomes :
                /\ calls' = Append(calls, Issued(call, outcome))
                /\ raised' = IF outcome = "ok" THEN None ELSE outcome
                /\ IF outcome = "ok"
                   THEN \E n \in 0..MaxPageLen :
                          /\ local' = [objs |-> SubSeq(ObjectNames, 1, n), i |-> 1,
                                       files |-> <<>>]
                          /\ pc' = IF n = 0 THEN "done" ELSE "SaveContainer_loop"
                   ELSE /\ local' = local
                        /\ pc' = "done"
    /\ UNCHANGED <<rows, client>>

\* lines 748-758, one object: object_fetch, then the stream is written to the
\* file named like the object; the stream may fail after the file was opened
SaveContainer_loop ==
    /\ pc = "SaveContainer_loop"
    /\ LET obj_name == local.objs[local.i]
           call == [op |-> "object_fetch", account |-> Account,
                    container |-> args.container, obj |-> obj_name,
                    properties |-> FALSE, cid |-> args.cid, outcome |-> None]
       IN  \E outcome \in Outcomes : \E opened \in BOOLEAN :
             /\ outcome = "ok" => opened
             /\ calls' = Append(calls, Issued(call, outcome))
             /\ IF outcome = "ok"
                THEN /\ raised' = None
                     /\ local' = [local EXCEPT !.i = @ + 1,
                                    !.files = Append(@, <<obj_name, "complete">>)]
                     /\ pc' = IF local.i = Len(local.objs) THEN "done" ELSE pc
                ELSE /\ raised' = outcome
                     /\ local' = IF opened
                                 THEN [local EXCEPT
                                         !.files = Append(@, <<obj_name, "partial">>)]
                                 ELSE local
                     /\ pc' = "done"
    /\ UNCHANGED <<args, rows, client>>

----------------------------------------------------------------------------
(* ListContainer *)

ListContainer_args ==
    [prefix : {None, "p"}, delimiter : {None, "/"}, marker : {None, "", "m"},
     end_marker : {None, "z"}, limit : {None, "2"}, full_listing : BOOLEAN]

\* the filters given (lines 612-622)
ListContainer_kwargs(a) ==
    LET k0 == EmptyMap
        k1 == IF Truthy(a.prefix) THEN MapSet(k0, "prefix", a.prefix) ELSE k0
        k2 == IF Truthy(a.marker) THEN MapSet(k1, "marker", a.marker) ELSE k1
        k3 == IF Truthy(a.end_marker) THEN MapSet(k2, "end_marker", a.end_marker) ELSE k2
        k4 == IF Truthy(a.delimiter) THEN MapSet(k3, "delimiter", a.delimiter) ELSE k3
        k5 == IF Truthy(a.limit) THEN MapSet(k4, "limit", a.limit) ELSE k4
    IN  k5

\* the k-th entry the backend lists: (name, object count, bytes, is prefix, mtime)
Entry(k) ==
    LET name == "e" \o Str(k)
    IN  <<name, "count:" \o name, "bytes:" \o name, "0", "mtime:" \o name>>

\* cid_from_name: the container ID is a hash of account and name
cid_from_name(account, name) == "cid(" \o account \o "/" \o name \o ")"

\* the row shown for entry v (line 647): name, bytes, count, mtime, CID
ListContainer_row(v) ==
    <<v[1], v[3], v[2], v[5], cid_from_name(Account, v[1])>>

\* pages the backend may return to a container_list call: the next entries
\* of its listing, at most MaxPageLen of them and none once MaxPages
\* non-empty pages were returned
ListingPages(history) ==
    LET pages == SelectSeq(history, LAMBDA c : c.op = "container_list" /\ c.outcome = "ok")
        nonempty == Len(SelectSeq(pages, LAMBDA c : c.page # <<>>))
        RECURSIVE Count(_)
        Count(s) == IF s = <<>> THEN 0 ELSE Len(Head(s).page) + Count(Tail(s))
        first == Count(pages) + 1
    IN  {<<>>} \cup
        (IF nonempty < MaxPages
         THEN {[i \in 1..n |-> Entry(first + i - 1)] : n \in 1..MaxPageLen}
         ELSE {})

\* one container_list call with the filters kwargs
ListContainer_call(kwargs) ==
    [op |-> "container_list", account |-> Account, kwargs |-> kwargs,
     page |-> <<>>, outcome |-> None]

\* rows of a whole page
ListContainer_rows(listing) == [i \in 1..Len(listing) |-> ListContainer_row(listing[i])]

\* lines 612-648: without --no-paging one page is fetched and shown; with it
\* the generator full_list is made, and runs as its rows are asked for
ListContainer_take_action ==
    /\ pc = "ListContainer"
    /\ LET kwargs == ListContainer_kwargs(args)
       IN  IF args.full_listing
           THEN /\ local' = [kwargs |-> kwargs, listing |-> <<>>, j |-> 1]
                /\ pc' = "full_list"
                /\ UNCHANGED <<calls, rows, raised>>
           ELSE /\ local' = [kwargs |-> kwargs]
                /\ pc' = "done"
                /\ \E outcome \in Outcomes :
                     IF outcome = "ok"
                     THEN \E page \in ListingPages(calls) :
                            /\ calls' = Append(calls, [ListContainer_call(kwargs) EXCEPT
                                                         !.outcome = "ok", !.page = page])
                            /\ rows' = ListContainer_rows(page)
                            /\ raised' = None
                     ELSE /\ calls' = Append(calls, Issued(ListContainer_call(kwargs), outcome))
                          /\ raised' = outcome
                          /\ rows' = rows
    /\ UNCHANGED <<args, client>>

FetchStep_SkipFirst(kwargs) ==
    \E outcome \in Outcomes :
      IF outcome = "ok"
      THEN \E page \in ListingPages(calls) :
             /\ calls' = Append(calls, [ListContainer_call(kwargs) EXCEPT
                                          !.outcome = "ok", !.page = page])
             /\ local' = [kwargs |-> kwargs, listing |-> page,
                          j |-> IF Len(page) > 1 THEN 2 ELSE 1]
             /\ raised' = None
             /\ pc' = IF page = <<>> THEN "done" ELSE "full_list_yield"
      ELSE /\ calls' = Append(calls, Issued(ListContainer_call(kwargs), outcome))
           /\ local' = local
           /\ raised' = outcome
           /\ pc' = "done"

\* a container_list call of full_list with the filters kwargs: a non-empty
\* page is yielded next; an empty page ends the generator (the for loop
\* yields nothing and `while listing` is false)
FetchStep(kwargs) ==
    \E outcome \in Outcomes :
      IF outcome = "ok"
      THEN \E page \in ListingPages(calls) :
             /\ calls' = Append(calls, [ListContainer_call(kwargs) EXCEPT
                                          !.outcome = "ok", !.page = page])
             /\ local' = [kwargs |-> kwargs, listing |-> page, j |-> 1]
             /\ raised' = None
             /\ pc' = IF page = <<>> THEN "done" ELSE "full_list_yield"
      ELSE /\ calls' = Append(calls, Issued(ListContainer_call(kwargs), outcome))
           /\ local' = local
           /\ raised' = outcome
           /\ pc' = "done"

\* lines 628-629: the first page
full_list ==
    /\ pc = "full_list"
    /\ FetchStep(local.kwargs)
    /\ UNCHANGED <<args, rows, client>>

\* lines 630-631 and 638-639: the next element of the page is yielded
full_list_yield ==
    /\ pc = "full_list_yield"
    /\ rows' = Append(rows, ListContainer_row(local.listing[local.j]))
    /\ local' = [local EXCEPT !.j = @ + 1]
    /\ pc' = IF local.j = Len(local.listing) THEN "full_list_while" ELSE pc
    /\ UNCHANGED <<args, calls, raised, client>>

full_list_marker_First(listing) == listing[1][1]

\* the marker of the next fetch (line 634)
full_list_marker(listing) == listing[Len(listing)][1]

\* lines 633-636: the page was not empty; the marker becomes the name of its
\* last entry and the next page is fetched
full_list_while ==
    /\ pc = "full_list_while"
    /\ FetchStep(MapSet(local.kwargs, "marker", full_list_marker(local.listing)))
    /\ UNCHANGED <<args, rows, client>>

----------------------------------------------------------------------------
(* ListBuckets *)

ListBuckets_args ==
    [prefix : {None, "p"}, marker : {None, "m"}, limit : {None, "2"},
     full_listing : BOOLEAN, versioning : BOOLEAN]

\* request_id(prefix='CLI-BUCKET-')
BucketReqid == "CLI-BUCKET-0123"

\* the filters given (lines 510-516)
ListBuckets_kwargs(a) ==
    LET k0 == ("reqid" :> BucketReqid)
        k1 == IF Truthy(a.prefix) THEN MapSet(k0, "prefix", a.prefix) ELSE k0
        k2 == IF Truthy(a.marker) THEN MapSet(k1, "marker", a.marker) ELSE k1
        k3 == IF Truthy(a.limit) THEN MapSet(k2, "limit", a.limit) ELSE k2
    IN  k3

\* the k-th bucket the account service lists
Bucket(k) ==
    LET name == "b" \o Str(k)
    IN  [name |-> name, bytes |-> "bytes:" \o name, objects |-> "objects:" \o name,
         mtime |-> "mtime:" \o name]

\* answers the account service may give to a bucket_list call: the next
\* buckets (at most MaxPageLen, and MaxBuckets in all), truncated or not; the
\* MaxPages-th answer is the last one
BucketPages(history) ==
    LET pages == SelectSeq(history, LAMBDA c : c.op = "bucket_list" /\ c.outcome = "ok")
        RECURSIVE Count(_)
        Count(s) == IF s = <<>> THEN 0 ELSE Len(Head(s).listing) + Count(Tail(s))
        first == Count(pages) + 1
        left == MaxBuckets - Count(pages)
    IN  {[listing |-> [i \in 1..n |-> Bucket(first + i - 1)], truncated |-> t,
          next_marker |-> IF n = 0 THEN None ELSE Bucket(first + n - 1).name] :
            n \in 0..(IF left < MaxPageLen THEN left ELSE MaxPageLen),
            t \in IF Len(pages) + 1 < MaxPages THEN BOOLEAN ELSE {FALSE}}

ListBuckets_call(kwargs) ==
    [op |-> "bucket_list", account |-> Account, kwargs |-> kwargs,
     listing |-> <<>>, truncated |-> FALSE, outcome |-> None]

\* values of the versioning policy a bucket's container may hold
VersioningData == {None, "0", "1", "-1", "12"}

\* int(s) of the decimal string s
IntOf(s) == CHOOSE n \in (0 - 20)..20 : Str(n) = s

versioning_ZeroEnabled(status) ==
    IF status = None THEN "Suspended" ELSE "Enabled"

\* lines 544-550: the versioning state shown for a versioning policy
versioning(status) ==
    IF status = None \/ IntOf(status) = 0 THEN "Suspended" ELSE "Enabled"

\* the row of a bucket (line 561)
ListBuckets_row(a, v) ==
    IF a.versioning
    THEN <<v.name, v.bytes, v.objects, v.mtime, v.versioning>>
    ELSE <<v.name, v.bytes, v.objects, v.mtime>>

\* a bucket_list call with the filters kwargs; listing is what take_action
\* iterates on next
BucketFetch(kwargs, full) ==
    \E outcome \in Outcomes :
      IF outcome = "ok"
      THEN \E page \in BucketPages(calls) :
             /\ calls' = Append(calls, [ListBuckets_call(kwargs) EXCEPT
                                          !.outcome = "ok", !.listing = page.listing,
                                          !.truncated = page.truncated])
             /\ local' = [kwargs |-> kwargs, listing |-> page.listing, j |-> 1,
                          truncated |-> full /\ page.truncated,
                          next_marker |-> page.next_marker]
             /\ raised' = None
             /\ pc' = IF page.listing # <<>> THEN "ListBuckets_rows"
                      ELSE IF full /\ page.truncated THEN "depaginate"
                      ELSE "done"
      ELSE /\ calls' = Append(calls, Issued(ListBuckets_call(kwargs), outcome))
           /\ local' = local
           /\ raised' = outcome
           /\ pc' = "done"

\* lines 510-532: without --no-paging bucket_list is called at once; with
\* it depaginate makes a generator, which calls as its items are asked for
ListBuckets_take_action ==
    /\ pc = "ListBuckets"
    /\ LET kwargs == ListBuckets_kwargs(args)
       IN  IF args.full_listing
           THEN /\ local' = [kwargs |-> kwargs, listing |-> <<>>, j |-> 1,
                             truncated |-> TRUE, next_marker |-> None]
                /\ pc' = "depaginate_first"
                /\ UNCHANGED <<calls, raised>>
           ELSE BucketFetch(kwargs, FALSE)
    /\ UNCHANGED <<args, rows, client>>

\* depaginate: the first bucket_list call
depaginate_first ==
    /\ pc = "depaginate_first"
    /\ BucketFetch(local.kwargs, TRUE)
    /\ UNCHANGED <<args, rows, client>>

\* depaginate: the answer was truncated; the next call starts at its next_marker
depaginate ==
    /\ pc = "depaginate"
    /\ BucketFetch(MapSet(local.kwargs, "marker", local.next_marker), TRUE)
    /\ UNCHANGED <<args, rows, client>>

\* where the listing goes on after the j-th bucket of the page
AfterBucket ==
    IF local.j < Len(local.listing) THEN "ListBuckets_rows"
    ELSE IF local.truncated THEN "depaginate"
    ELSE "done"

\* lines 536-561, one bucket: with --versioning its properties are fetched
\* (status is the versioning policy held by data['system'], None if absent);
\* NoSuchContainer is caught and shown as "Error", any other exception
\* leaves the command; then the row is produced
ListBuckets_rows ==
    /\ pc = "ListBuckets_rows"
    /\ LET v == local.listing[local.j]
           call == [op |-> "container_get_properties", account |-> Account,
                    container |-> v.name, cid |-> None,
                    reqid |-> local.kwargs["reqid"], status |-> None,
                    outcome |-> None]
       IN  IF args.versioning
           THEN \E outcome \in Outcomes :
                  /\ IF outcome = "ok"
                     THEN \E status \in VersioningData :
                            /\ calls' = Append(calls,
                                  [call EXCEPT !.outcome = "ok", !.status = status])
                            /\ rows' = Append(rows,
                                  ListBuckets_row(args,
                                      Merge(v, [versioning |-> versioning(status)])))
                     ELSE /\ calls' = Append(calls, Issued(call, outcome))
                          /\ rows' =
                               IF outcome = "NoSuchContainer"
                               THEN Append(rows,
                                      ListBuckets_row(args,
                                          Merge(v, [versioning |-> "Error"])))
                               ELSE rows
                  /\ IF outcome \in {"ok", "NoSuchContainer"}
                     THEN /\ raised' = None
                          /\ local' = [local EXCEPT !.j = @ + 1]
                          /\ pc' = AfterBucket
                     ELSE /\ raised' = outcome
                          /\ local' = local
                          /\ pc' = "done"
           ELSE /\ rows' = Append(rows, ListBuckets_row(args, v))
                /\ local' = [local EXCEPT !.j = @ + 1]
                /\ pc' = AfterBucket
                /\ UNCHANGED <<calls, raised>>
    /\ UNCHANGED <<args, client>>

----------------------------------------------------------------------------
(* SetBucket, ShowBucket, RefreshBucket *)

BucketNames == {"b1"}
Formatters == {"table", "json"}

\* what bucket_show and bucket_update return
BucketData == ("account" :> Account) @@ ("bytes" :> "4096") @@ ("mtime" :> "1600000000.0")

\* convert_size and Timestamp(...).isoformat, applied for the table format
\* (lines 211-215, 396-400)
BucketDisplay(data, formatter) ==
    IF formatter = "table"
    THEN MapUpdate(data, ("bytes" :> "convert_size(" \o data["bytes"] \o ")")
                         @@ ("mtime" :> "isoformat(" \o data["mtime"] \o ")"))
    ELSE data

SetBucket_args ==
    [bucket : BucketNames, replicate : {Nil, Some(TRUE), Some(FALSE)},
     formatter : Formatters]

BUCKET_PROP_REPLI_ENABLED == "replication_enabled"

\* lines 204-206: str(parsed_args.replicate) under the replication key
SetBucket_metadata(a) ==
    IF a.replicate # Nil
    THEN (BUCKET_PROP_REPLI_ENABLED :> IF Val(a.replicate) THEN "True" ELSE "False")
    ELSE EmptyMap

SetBucket_take_action ==
    /\ pc = "SetBucket"
    /\ LET call == [op |-> "bucket_update", bucket |-> args.bucket,
                    metadata |-> SetBucket_metadata(args), to_delete |-> None,
                    reqid |-> BucketReqid, outcome |-> None]
       IN  \E outcome \in Outcomes :
             /\ calls' = Append(calls, Issued(call, outcome))
             /\ raised' = IF outcome = "ok" THEN None ELSE outcome
             /\ rows' = IF outcome = "ok"
                        THEN <<BucketDisplay(BucketData, args.formatter)>> ELSE rows
    /\ pc' = "done"
    /\ UNCHANGED <<args, local, client>>

ShowBucket_args == [bucket : BucketNames, formatter : Formatters]

ShowBucket_take_action ==
    /\ pc = "ShowBucket"
    /\ LET call == [op |-> "bucket_show", bucket |-> args.bucket,
                    reqid |-> BucketReqid, outcome |-> None]
       IN  \E outcome \in Outcomes :
             /\ calls' = Append(calls, Issued(call, outcome))
             /\ raised' = IF outcome = "ok" THEN None ELSE outcome
             /\ rows' = IF outcome = "ok"
                        THEN <<BucketDisplay(BucketData, args.formatter)>> ELSE rows
    /\ pc' = "done"
    /\ UNCHANGED <<args, local, client>>

RefreshBucket_args == [bucket : BucketNames]

RefreshBucket_take_action ==
    /\ pc = "RefreshBucket"
    /\ LastCall([op |-> "bucket_refresh", bucket |-> args.bucket,
                 reqid |-> BucketReqid, outcome |-> None])
    /\ UNCHANGED <<args, local, rows, client>>

----------------------------------------------------------------------------
(* Invocation *)

Commands ==
    {"CreateContainer", "SetContainer", "UnsetContainer", "TouchContainer",
     "DeleteContainer", "FlushContainer", "RefreshContainer", "PurgeContainer",
     "SnapshotContainer", "ShowContainer", "LocateContainer", "SaveContainer",
     "ListContainer", "ListBuckets", "SetBucket", "ShowBucket", "RefreshBucket"}

\* what get_parser of each command can produce
ParsedArgs(c) ==
    CASE c = "CreateContainer" -> CreateContainer_args
      [] c = "SetContainer" -> SetContainer_args
      [] c = "UnsetContainer" -> UnsetContainer_args
      [] c = "TouchContainer" -> TouchContainer_args
      [] c = "DeleteContainer" -> DeleteContainer_args
      [] c = "FlushContainer" -> FlushContainer_args
      [] c = "RefreshContainer" -> RefreshContainer_args
      [] c = "PurgeContainer" -> PurgeContainer_args
      [] c = "SnapshotContainer" -> SnapshotContainer_args
      [] c = "ShowContainer" -> ShowContainer_args
      [] c = "LocateContainer" -> LocateContainer_args
      [] c = "SaveContainer" -> SaveContainer_args
      [] c = "ListContainer" -> ListContainer_args
      [] c = "ListBuckets" -> ListBuckets_args
      [] c = "SetBucket" -> SetBucket_args
      [] c = "ShowBucket" -> ShowBucket_args
      [] c = "RefreshBucket" -> RefreshBucket_args

\* the command line is parsed and take_action of the command is entered
Invoke ==
    /\ pc = "idle"
    /\ \E c \in Commands : \E a \in ParsedArgs(c) :
         /\ pc' = c
         /\ args' = Merge(a, [command |-> c])
    /\ local' = NoLocals
    /\ UNCHANGED <<calls, rows, raised, client>>

\* command lines with more than one positional where the parser takes one
OverSupplied ==
    [is_cid : BOOLEAN,
     argv : {s \in SeqsUpTo(Idents, MaxBatch) : Len(s) > 1}]

\* commands whose parser is patched by ContainerCommandMixin: <container>
\* is one positional (no nargs)
SingleCommands ==
    {"SetContainer", "UnsetContainer", "ShowContainer", "LocateContainer",
     "SaveContainer", "PurgeContainer", "FlushContainer", "RefreshContainer",
     "SnapshotContainer"}

\* a command of SingleCommands is given several identifiers: the parser
\* takes the first as <container>, reports the others as unrecognized
\* arguments and exits; take_action is never entered
parse_args_error ==
    /\ pc = "idle"
    /\ \E c \in SingleCommands : \E a \in OverSupplied :
         args' = Merge(a, [command |-> c])
    /\ pc' = "rejected"
    /\ raised' = "SystemExit"
    /\ UNCHANGED <<local, calls, rows, client>>

\* user properties the container holds before the command runs
PriorProps ==
    {[k \in {"k2"} |-> "old"], [k \in {"k1", "k2"} |-> "old"]}

Init ==
    /\ pc = "idle"
    /\ args = NoArgs
    /\ local = NoLocals
    /\ calls = <<>>
    /\ rows = <<>>
    /\ raised = None
    /\ client \in [props : PriorProps]

Next ==
    \/ Invoke
    \/ parse_args_error
    \/ CreateContainer_take_action
    \/ SetContainer_take_action
    \/ UnsetContainer_take_action
    \/ UnsetContainer_set
    \/ TouchContainer_take_action
    \/ TouchContainer_loop
    \/ DeleteContainer_take_action
    \/ DeleteContainer_loop
    \/ FlushContainer_take_action
    \/ FlushContainer_flush
    \/ RefreshContainer_take_action
    \/ RefreshContainer_refresh
    \/ PurgeContainer_take_action
    \/ SnapshotContainer_take_action
    \/ SnapshotContainer_snapshot
    \/ ShowContainer_take_action
    \/ LocateContainer_take_action
    \/ LocateContainer_list
    \/ SaveContainer_take_action
    \/ SaveContainer_loop
    \/ ListContainer_take_action
    \/ full_list
    \/ full_list_yield
    \/ full_list_while
    \/ ListBuckets_take_action
    \/ depaginate_first
    \/ depaginate
    \/ ListBuckets_rows
    \/ SetBucket_take_action
    \/ ShowBucket_take_action
    \/ RefreshBucket_take_action

Spec == Init /\ [][Next]_vars

----------------------------------------------------------------------------
(* Properties *)

\* command c has ended (it returned, or an exception left it)
Done(c) == pc = "done" /\ args.command = c
\* command c has ended by returning
Returned(c) == Done(c) /\ raised = None
\* command c is running or has ended
Running(c) == pc \notin {"idle", "rejected"} /\ args.command = c

\* C1: a create of N > 1 names that returns gives exactly N rows, the i-th
\* being (i-th name given, a boolean)
C1_CreateManyRows ==
    (Returned("CreateContainer") /\ Len(args.containers) > 1) =>
        /\ Len(rows) = Len(args.containers)
        /\ \A i \in 1..Len(rows) :
             /\ Len(rows[i]) = 2
             /\ rows[i][1] = args.containers[i]
             /\ rows[i][2] \in BOOLEAN

C1_Witness ==
    /\ Returned("CreateContainer")
    /\ Len(args.containers) = 2
    /\ args.containers[1] # args.containers[2]
    /\ Len(rows) = 2
    /\ rows[1][2] # rows[2][2]

\* commands built on ContainerCommandMixin
MixinCommands ==
    {"SetContainer", "UnsetContainer", "ShowContainer", "LocateContainer",
     "PurgeContainer", "SaveContainer", "FlushContainer", "RefreshContainer",
     "SnapshotContainer"}
\* those that hand parsed_args.container and parsed_args.cid to the client
PassingCommands ==
    {"SetContainer", "UnsetContainer", "ShowContainer", "LocateContainer",
     "PurgeContainer", "SaveContainer"}

\* the identifiers of every call of a mixin command: exactly one of name and
\* CID is given
C2_CallsIdentified ==
    (pc \notin {"idle", "rejected"} /\ args.command \in MixinCommands) =>
        /\ pc # args.command =>
             /\ (args.container = None) # (args.cid = None)
             /\ args.is_cid => (args.container = None /\ args.cid \in Idents)
             /\ ~args.is_cid => (args.container \in Idents /\ args.cid = None)
        /\ \A i \in 1..Len(calls) :
             /\ calls[i].op = "resolve_cid" =>
                  calls[i].cid # None /\ calls[i].cid = args.cid
             /\ calls[i].op # "resolve_cid" =>
                  (calls[i].container = None) # (calls[i].cid = None)
             /\ args.command \in PassingCommands =>
                  calls[i].container = args.container /\ calls[i].cid = args.cid

\* the step that runs take_action_container turns (container, is_cid) into
\* (None, container) with --cid and into (container, None) without
C2_Resolves ==
    (pc # "idle" /\ args.command \in MixinCommands /\ pc = args.command) =>
        IF args.is_cid
        THEN args'.container = None /\ args'.cid = args.container
        ELSE args'.container = args.container /\ args'.cid = None

\* C2: take_action_container leaves exactly one of parsed_args.container and
\* parsed_args.cid non-null, (None, input) with --cid and (input, None)
\* without, and every call of a command using the mixin names the container
\* by exactly one of the two
C2_ExactlyOneIdentifier == [](C2_CallsIdentified) /\ [][C2_Resolves]_vars

C2_Witness ==
    /\ Done("SetContainer")
    /\ args.is_cid
    /\ Len(calls) = 1
    /\ calls[1].cid = "c2"
    /\ calls[1].container = None

\* no --property and no reset flag
UnsetNothing ==
    /\ args.property = <<>>
    /\ ~args.bucket_name
    /\ ~args.storage_policy
    /\ ~args.max_versions
    /\ ~args.quota
    /\ ~args.delete_exceeding_versions

\* C3: an unset with no property and no reset flag issues exactly one call,
\* container_del_properties with an empty list, and no container_set_properties
C3_UnsetNothingStillDeletes ==
    (Done("UnsetContainer") /\ UnsetNothing) =>
        /\ Len(calls) = 1
        /\ calls[1].op = "container_del_properties"
        /\ calls[1].properties = <<>>

C3_Witness ==
    /\ Returned("UnsetContainer")
    /\ UnsetNothing
    /\ Len(calls) = 1
    /\ calls[1].op = "container_del_properties"

\* the entries of the pages returned so far, in fetch order
RECURSIVE Concat(_)
Concat(cs) == IF cs = <<>> THEN <<>> ELSE Head(cs).page \o Concat(Tail(cs))

\* C4: list --no-paging that returns has shown exactly the entries of the
\* pages in fetch order, every page but the last was non-empty, the last is
\* empty, and so the calls are the non-empty pages plus one
C4_FullListing ==
    (Running("ListContainer") /\ args.full_listing) =>
        /\ \A i \in 1..Len(calls) :
             /\ calls[i].op = "container_list"
             /\ i < Len(calls) => (calls[i].outcome = "ok" /\ calls[i].page # <<>>)
        /\ Returned("ListContainer") =>
             /\ Len(calls) >= 1
             /\ calls[Len(calls)].page = <<>>
             /\ Len(calls) =
                  Cardinality({i \in 1..Len(calls) : calls[i].page # <<>>}) + 1
             /\ Len(rows) = Len(Concat(calls))
             /\ \A k \in 1..Len(rows) :
                  /\ rows[k][1] = Concat(calls)[k][1]
                  /\ rows[k] = ListContainer_row(Concat(calls)[k])

C4_Witness ==
    /\ Returned("ListContainer")
    /\ args.full_listing
    /\ Len(calls) = 3
    /\ Len(calls[1].page) = 2
    /\ Len(calls[2].page) = 2
    /\ Len(rows) = 4

\* C5: a set whose --status is not enabled, disabled or frozen fails with an
\* "invalid status" error and calls nothing; a valid status is sent as its
\* backend code under 'sys.status'
C5_InvalidStatusError ==
    Done("SetContainer") =>
        /\ (args.status \notin {None, "enabled", "disabled", "frozen"}) =>
             /\ raised = "InvalidStatus"
             /\ calls = <<>>
        /\ (args.status \in {"enabled", "disabled", "frozen"}) =>
             /\ Len(calls) = 1
             /\ "sys.status" \in DOMAIN calls[1].system
             /\ calls[1].system["sys.status"] =
                  (CASE args.status = "enabled" -> OIO_DB_ENABLED
                     [] args.status = "disabled" -> OIO_DB_DISABLED
                     [] args.status = "frozen" -> OIO_DB_FROZEN)

\* commands over a batch of containers, and the operation of each
BatchOp ==
    [TouchContainer |-> "container_touch", DeleteContainer |-> "container_delete"]

\* the container a call is about, by name or by CID
Target(c) == IF c.container # None THEN c.container ELSE c.cid

\* C6: in touch and delete the i-th call is about the i-th container given,
\* only the last call may have raised, and then the command has ended with
\* that exception; flush and purge, which take one container, call nothing
\* after a call that raised either
C6_BatchAbortsOnFailure ==
    /\ (pc # "idle" /\ args.command \in DOMAIN BatchOp) =>
         /\ Len(calls) <= Len(args.containers)
         /\ \A i \in 1..Len(calls) :
              /\ calls[i].op = BatchOp[args.command]
              /\ Target(calls[i]) = args.containers[i]
              /\ i < Len(calls) => calls[i].outcome = "ok"
         /\ (Len(calls) > 0 /\ calls[Len(calls)].outcome # "ok") =>
              (pc = "done" /\ raised = calls[Len(calls)].outcome)
         /\ Returned(args.command) =>
              (Len(calls) = Len(args.containers) /\ calls[Len(calls)].outcome = "ok")
    /\ (pc # "idle" /\ args.command \in {"FlushContainer", "PurgeContainer"}) =>
         \A i \in 1..Len(calls) :
           calls[i].outcome # "ok" =>
             (i = Len(calls) /\ pc = "done" /\ raised = calls[i].outcome)

C6_Witness ==
    /\ Done("DeleteContainer")
    /\ Len(args.containers) = 2
    /\ Len(calls) = 1
    /\ calls[1].outcome = "OioException"
    /\ raised = "OioException"

\* keys of the --property map
NewKeys(a) == IF a.property = Nil THEN {} ELSE DOMAIN Val(a.property)

\* the step of a set that returns: one container_set_properties call is
\* added, carrying --clear and the --property map; with --clear every user
\* property not in the map is gone, without it every one is kept as it was
C7_SetStep ==
    (pc = "SetContainer" /\ pc' = "done" /\ raised' = None) =>
        /\ Len(calls') = 1
        /\ calls'[1].op = "container_set_properties"
        /\ calls'[1].clear = args.clear
        /\ calls'[1].properties = args.property
        /\ \A k \in (DOMAIN client.props) \ NewKeys(args) :
             IF args.clear
             THEN k \notin DOMAIN client'.props
             ELSE k \in DOMAIN client'.props /\ client'.props[k] = client.props[k]
        /\ \A k \in NewKeys(args) :
             k \in DOMAIN client'.props /\ client'.props[k] = Val(args.property)[k]

\* C7: a set that returns has issued exactly one container_set_properties
\* call with clear as given and the new property map; after it, with --clear
\* no earlier user property outside the new map is left, and without --clear
\* all of them are
C7_ClearReplaces == [][C7_SetStep]_vars

C7_Witness ==
    /\ Returned("SetContainer")
    /\ args.clear
    /\ args.property # Nil
    /\ DOMAIN Val(args.property) = {"k1"}
    /\ calls[1].clear
    /\ DOMAIN client.props = {"k1"}
    /\ client.props["k1"] = "new"

\* the calls that carry a system map built from --max-versions
CarriesSystem(c) ==
    c.op \in {"container_create", "container_create_many", "container_set_properties"}

\* C8: in create and set, when --max-versions n is given, every call made
\* carries the versioning-policy key with the decimal writing of n, whatever
\* the sign of n
C8_MaxVersionsVerbatim ==
    (pc \notin {"idle", "rejected"}
       /\ args.command \in {"CreateContainer", "SetContainer"}
       /\ args.max_versions # Nil) =>
        \A i \in 1..Len(calls) :
          CarriesSystem(calls[i]) =>
            /\ M2_PROP_VERSIONING_POLICY \in DOMAIN calls[i].system
            /\ LET sent == calls[i].system[M2_PROP_VERSIONING_POLICY]
                   n == Val(args.max_versions)
               IN  /\ IntOf(sent) = n
                   /\ n = 0 - 1 => sent = "-1"
                   /\ n = 0 => sent = "0"
                   /\ n = 1 => sent = "1"
                   /\ n = 12 => sent = "12"

C8_Witness ==
    /\ Returned("CreateContainer")
    /\ args.max_versions = Some(0)
    /\ Len(calls) = 1
    /\ calls[1].system[M2_PROP_VERSIONING_POLICY] = "0"

\* C9: the container_snapshot call of snapshot has as source the pair
\* resolve_cid returned (with --cid) or the configured account and the name
\* (without); without --dst-container its destination name is the source
\* name, "-" and a timestamp, without --dst-account its destination account
\* is the source account; the row shown names the destination of the call
C9_SnapshotDefaults ==
    Running("SnapshotContainer") =>
        \A i \in 1..Len(calls) :
          calls[i].op = "container_snapshot" =>
            LET c == calls[i]
            IN  /\ IF args.is_cid
                   THEN /\ i = 2
                        /\ calls[1].op = "resolve_cid"
                        /\ calls[1].outcome = "ok"
                        /\ <<c.account, c.container>> = calls[1].ret
                   ELSE /\ i = 1
                        /\ c.account = Account
                        /\ c.container = args.container
                /\ args.dst_container = None =>
                     \E normal \in Timestamps :
                       c.dst_container = c.container \o "-" \o normal
                /\ args.dst_account = None => c.dst_account = c.account
                /\ Returned("SnapshotContainer") =>
                     rows = <<<<c.dst_account, c.dst_container, "OK">>>>

C9_Witness ==
    /\ Returned("SnapshotContainer")
    /\ args.is_cid
    /\ args.dst_container = None
    /\ args.dst_account = None
    /\ Len(calls) = 2
    /\ calls[1].ret = <<"other", "c2">>
    /\ calls[2].dst_account = "other"
    /\ calls[2].dst_container = "c2-1600000001.50000"
    /\ rows = <<<<"other", "c2-1600000001.50000", "OK">>>>

\* the i-th call raised and the exception left the command at once: it is
\* the last call and the command ended with that exception
Propagated(i) ==
    /\ i = Len(calls)
    /\ pc = "done"
    /\ raised = calls[i].outcome

\* C10 as stated: in every command, a call that raised is the last call and
\* its exception is what the command ended with
C10_EveryErrorPropagates ==
    \A i \in 1..Len(calls) : calls[i].outcome # "ok" => Propagated(i)

\* the one place where an exception of the client is caught: NoSuchContainer
\* from the property fetch of bucket list --versioning
CaughtInVersioning(i) ==
    /\ args.command = "ListBuckets"
    /\ calls[i].op = "container_get_properties"
    /\ calls[i].outcome = "NoSuchContainer"

\* the rows of bucket list --versioning follow the property fetches: the
\* k-th fetch gave the k-th row, "Error" when it raised NoSuchContainer
VersioningRows ==
    LET fetches == SelectSeq(calls, LAMBDA c : c.op = "container_get_properties")
    IN  \A k \in 1..Len(fetches) :
          fetches[k].outcome = "NoSuchContainer" =>
            /\ Len(rows) >= k
            /\ rows[k][1] = fetches[k].container
            /\ rows[k][5] = "Error"

\* C10, amended: a call that raised is the last call and its exception is
\* what the command ended with, except NoSuchContainer from the property
\* fetch of bucket list --versioning, which is shown as "Error"
C10_ErrorsPropagateButVersioning ==
    /\ \A i \in 1..Len(calls) :
         (calls[i].outcome # "ok" /\ ~CaughtInVersioning(i)) => Propagated(i)
    /\ (raised \notin {None, "KeyError", "SystemExit"}) =>
         (Len(calls) > 0 /\ Propagated(Len(calls)))
    /\ (pc # "idle" /\ args.command = "ListBuckets") => VersioningRows

C10_Witness ==
    /\ Done("ListBuckets")
    /\ Len(calls) = 3
    /\ calls[2].outcome = "NoSuchContainer"
    /\ calls[3].outcome = "OioException"
    /\ raised = "OioException"
    /\ Len(rows) = 1
    /\ rows[1][5] = "Error"

----------------------------------------------------------------------------
(* Properties, continued *)

\* commands over one container, and the operation of each
SingleOp ==
    [FlushContainer |-> "container_flush", PurgeContainer |-> "container_purge",
     RefreshContainer |-> "container_refresh",
     SnapshotContainer |-> "container_snapshot"]

\* the calls of operation op issued so far
OpCalls(op) == SelectSeq(calls, LAMBDA c : c.op = op)

\* the identifiers given on the command line
Given ==
    IF "containers" \in DOMAIN args THEN args.containers
    ELSE IF "argv" \in DOMAIN args THEN args.argv
    ELSE IF args.container # None THEN <<args.container>> ELSE <<args.cid>>

\* C11 as stated: touch, flush, delete, purge, refresh and snapshot all take
\* several identifiers in one invocation, and one that returns has issued
\* one operation per identifier
C11_AllSixTakeBatches ==
    (pc # "idle" /\ args.command \in (DOMAIN BatchOp) \cup (DOMAIN SingleOp)) =>
        /\ pc # "rejected"
        /\ Returned(args.command) =>
             LET op == IF args.command \in DOMAIN BatchOp
                       THEN BatchOp[args.command] ELSE SingleOp[args.command]
             IN  Len(OpCalls(op)) = Len(Given)

\* C11, amended: touch and delete take a batch and issue one operation per
\* member, in input order, up to the first that fails, every member by CID
\* (name null) with --cid and every member by name (cid null) without;
\* flush, purge, refresh and snapshot take one identifier: several are
\* rejected before any call, and one gets at most one operation, exactly one
\* when the command returns
C11_BatchesInTouchAndDelete ==
    /\ (pc # "idle" /\ args.command \in DOMAIN BatchOp) =>
         /\ pc # "rejected"
         /\ Len(calls) <= Len(args.containers)
         /\ \A i \in 1..Len(calls) :
              /\ calls[i].op = BatchOp[args.command]
              /\ i < Len(calls) => calls[i].outcome = "ok"
              /\ IF args.is_cid
                 THEN calls[i].cid = args.containers[i] /\ calls[i].container = None
                 ELSE calls[i].container = args.containers[i] /\ calls[i].cid = None
         /\ Returned(args.command) => Len(calls) = Len(args.containers)
    /\ (pc # "idle" /\ args.command \in DOMAIN SingleOp) =>
         IF pc = "rejected"
         THEN Len(args.argv) > 1 /\ calls = <<>> /\ raised = "SystemExit"
         ELSE /\ Len(Given) = 1
              /\ Len(OpCalls(SingleOp[args.command])) <= 1
              /\ Returned(args.command) =>
                   /\ Len(OpCalls(SingleOp[args.command])) = 1
                   /\ calls[Len(calls)].op = SingleOp[args.command]

C11_Witness ==
    /\ Returned("TouchContainer")
    /\ args.is_cid
    /\ args.containers = <<"c2", "c1">>
    /\ Len(calls) = 2
    /\ calls[1].cid = "c2" /\ calls[1].container = None
    /\ calls[2].cid = "c1" /\ calls[2].container = None

\* the keys of the system-reset flags given to unset
ResetKeys ==
    (IF args.bucket_name THEN {M2_PROP_BUCKET_NAME} ELSE {})
    \cup (IF args.storage_policy THEN {M2_PROP_STORAGE_POLICY} ELSE {})
    \cup (IF args.max_versions THEN {M2_PROP_VERSIONING_POLICY} ELSE {})
    \cup (IF args.quota THEN {M2_PROP_QUOTA} ELSE {})
    \cup (IF args.delete_exceeding_versions THEN {M2_PROP_DEL_EXC_VERSIONS} ELSE {})

\* a container_del_properties call was made and raised
DelFailed ==
    \E i \in 1..Len(calls) :
      calls[i].op = "container_del_properties" /\ calls[i].outcome # "ok"

\* C12 as stated: an unset that has ended has made a container_set_properties
\* call if and only if a system-reset flag was given; the system map of the
\* call has exactly the keys of the flags given, each with the empty string,
\* and the call carries no user properties
C12_SetIffResetFlag ==
    Done("UnsetContainer") =>
        LET sets == OpCalls("container_set_properties")
        IN  /\ (Len(sets) >= 1) <=> (ResetKeys # {})
            /\ \A i \in 1..Len(sets) :
                 /\ DOMAIN sets[i].system = ResetKeys
                 /\ \A k \in ResetKeys : sets[i].system[k] = ""
                 /\ sets[i].properties = Nil

\* C12, amended: in unset, a container_set_properties call is made only if a
\* system-reset flag is given, and is made whenever one is given unless
\* container_del_properties raised before it; its system map has exactly the
\* keys of the flags given, each with the empty string, and it carries no
\* user properties
C12_UnsetSystemResets ==
    Running("UnsetContainer") =>
        LET sets == OpCalls("container_set_properties")
        IN  /\ Len(sets) <= 1
            /\ ResetKeys = {} => Len(sets) = 0
            /\ (Done("UnsetContainer") /\ ResetKeys # {} /\ ~DelFailed) =>
                 Len(sets) = 1
            /\ \A i \in 1..Len(sets) :
                 /\ DOMAIN sets[i].system = ResetKeys
                 /\ \A k \in ResetKeys : sets[i].system[k] = ""
                 /\ sets[i].properties = Nil
                 /\ ~sets[i].clear

C12_Witness ==
    /\ Returned("UnsetContainer")
    /\ args.property = <<"k1">>
    /\ ResetKeys = {M2_PROP_QUOTA, M2_PROP_VERSIONING_POLICY}
    /\ Len(calls) = 2
    /\ calls[2].op = "container_set_properties"
    /\ DOMAIN calls[2].system = {M2_PROP_QUOTA, M2_PROP_VERSIONING_POLICY}
    /\ calls[2].system[M2_PROP_QUOTA] = ""

\* the system map a create or set must send for the flags given: a key for
\* each flag given, none for a flag left out
ExpectedSystem ==
    [k \in (IF args.quota # Nil THEN {M2_PROP_QUOTA} ELSE {})
              \cup (IF args.storage_policy # None THEN {M2_PROP_STORAGE_POLICY} ELSE {})
              \cup (IF args.max_versions # Nil THEN {M2_PROP_VERSIONING_POLICY} ELSE {})
              \cup (IF args.delete_exceeding_versions # Nil
                    THEN {M2_PROP_DEL_EXC_VERSIONS} ELSE {}) |->
           CASE k = M2_PROP_QUOTA -> Str(Val(args.quota))
             [] k = M2_PROP_STORAGE_POLICY -> args.storage_policy
             [] k = M2_PROP_VERSIONING_POLICY -> Str(Val(args.max_versions))
             [] k = M2_PROP_DEL_EXC_VERSIONS ->
                  IF Val(args.delete_exceeding_versions) THEN "1" ELSE "0"]

\* the keys of the four flags of SetPropertyCommandMixin
FlagKeys ==
    {M2_PROP_QUOTA, M2_PROP_STORAGE_POLICY, M2_PROP_VERSIONING_POLICY,
     M2_PROP_DEL_EXC_VERSIONS}

\* m restricted to the keys of S
Restrict(m, S) == [k \in (DOMAIN m) \cap S |-> m[k]]

\* C13: in create and set, the system map of every call has the quota key
\* exactly when --quota was given, with str(quota) (also for 0 and negative
\* values), and likewise the storage policy, the versioning policy and
\* delete-exceeding-versions ("1" or "0"); with no system flag at all the
\* system map is empty
C13_SystemKeysFollowFlags ==
    (pc \notin {"idle", "rejected"}
       /\ args.command \in {"CreateContainer", "SetContainer"}) =>
        \A i \in 1..Len(calls) :
          /\ CarriesSystem(calls[i])
          /\ Restrict(calls[i].system, FlagKeys) = ExpectedSystem
          /\ args.quota = Some(0) => calls[i].system[M2_PROP_QUOTA] = "0"
          /\ args.quota = Some(0 - 1) => calls[i].system[M2_PROP_QUOTA] = "-1"
          /\ args.quota = Some(1024) => calls[i].system[M2_PROP_QUOTA] = "1024"
          /\ (/\ ExpectedSystem = EmptyMap
              /\ ~Truthy(args.bucket_name)
              /\ (args.command = "SetContainer" => args.status = None)) =>
               calls[i].system = EmptyMap

C13_Witness ==
    /\ Done("SetContainer")
    /\ args.quota = Some(0)
    /\ args.storage_policy = None
    /\ args.max_versions = Nil
    /\ args.delete_exceeding_versions = Some(FALSE)
    /\ Len(calls) = 1
    /\ Restrict(calls[1].system, FlagKeys) =
         (M2_PROP_QUOTA :> "0") @@ (M2_PROP_DEL_EXC_VERSIONS :> "0")

\* C14: a create that has ended has issued exactly one call:
\* container_create_many with all the names when several were given,
\* container_create with the name when one was given; either carries the
\* --property map and the system map of the flags; a create of one name that
\* returns shows the one pair (name, what container_create returned)
C14_CreateIssuesOneCall ==
    /\ pc = "CreateContainer" => calls = <<>>
    /\ Done("CreateContainer") =>
         /\ Len(calls) = 1
         /\ IF Len(args.containers) > 1
            THEN /\ calls[1].op = "container_create_many"
                 /\ calls[1].containers = args.containers
            ELSE /\ calls[1].op = "container_create"
                 /\ calls[1].container = args.containers[1]
         /\ calls[1].properties = args.property
         /\ Restrict(calls[1].system, FlagKeys) = ExpectedSystem
         /\ IF Truthy(args.bucket_name)
            THEN calls[1].system[M2_PROP_BUCKET_NAME] = args.bucket_name
            ELSE M2_PROP_BUCKET_NAME \notin DOMAIN calls[1].system
         /\ DOMAIN calls[1].system \subseteq FlagKeys \cup {M2_PROP_BUCKET_NAME}
         /\ (raised = None /\ Len(args.containers) = 1) =>
              /\ calls[1].ret # Nil
              /\ rows = <<<<args.containers[1], Val(calls[1].ret)>>>>

C14_Witness ==
    /\ Returned("CreateContainer")
    /\ args.containers = <<"c2">>
    /\ args.property = Some([k \in {"k1"} |-> "new"])
    /\ Len(calls) = 1
    /\ calls[1].op = "container_create"
    /\ calls[1].ret = Some(FALSE)
    /\ rows = <<<<"c2", FALSE>>>>

\* the buckets of the answers to bucket_list so far, in order
RECURSIVE Listed(_)
Listed(cs) ==
    IF cs = <<>> THEN <<>>
    ELSE (IF Head(cs).op = "bucket_list" /\ Head(cs).outcome = "ok"
          THEN Head(cs).listing ELSE <<>>) \o Listed(Tail(cs))

\* C15: bucket list without --versioning fetches no properties; with it, the
\* k-th container_get_properties call is about the k-th bucket listed, and a
\* listing that returns has fetched once for every bucket listed; the k-th
\* row shows "Error" when the fetch raised NoSuchContainer (and the listing
\* went on), "Suspended" when the versioning policy is absent or 0, and
\* "Enabled" for any other value
C15_VersioningColumn ==
    Running("ListBuckets") =>
        LET fetches == OpCalls("container_get_properties")
            listed == Listed(calls)
        IN  /\ ~args.versioning => Len(fetches) = 0
            /\ Len(fetches) <= Len(listed)
            /\ (args.versioning /\ Returned("ListBuckets")) =>
                 (Len(fetches) = Len(listed) /\ Len(rows) = Len(listed))
            /\ \A k \in 1..Len(fetches) :
                 /\ fetches[k].container = listed[k].name
                 /\ fetches[k].outcome \in {"ok", "NoSuchContainer"} =>
                      /\ Len(rows) >= k
                      /\ rows[k][1] = listed[k].name
                      /\ rows[k][5] =
                           IF fetches[k].outcome = "NoSuchContainer" THEN "Error"
                           ELSE IF fetches[k].status \in {None, "0"} THEN "Suspended"
                           ELSE "Enabled"
                 /\ fetches[k].outcome \notin {"ok", "NoSuchContainer"} =>
                      (k = Len(fetches) /\ raised = fetches[k].outcome)

C15_Witness ==
    /\ Returned("ListBuckets")
    /\ args.versioning
    /\ Len(rows) = 2
    /\ Len(OpCalls("container_get_properties")) = 2
    /\ OpCalls("container_get_properties")[1].outcome = "NoSuchContainer"
    /\ OpCalls("container_get_properties")[2].status = "0"
    /\ rows[1][5] = "Error"
    /\ rows[2][5] = "Suspended"

\* the commands that need the name of the container, and the operation of each
ResolvingOp ==
    [FlushContainer |-> "container_flush", RefreshContainer |-> "container_refresh",
     SnapshotContainer |-> "container_snapshot"]

\* C16: in flush, refresh and snapshot given a CID, resolve_cid is the first
\* call, is made once, with that CID; the operation is the second call and is
\* about the (account, name) pair resolve_cid returned; when resolve_cid
\* raised, nothing else was called and the command ended with its exception;
\* given a name, resolve_cid is not called and the operation is about the
\* configured account and that name
C16_ResolveBeforeOperation ==
    (pc \notin {"idle", "rejected"} /\ args.command \in DOMAIN ResolvingOp) =>
        LET op == ResolvingOp[args.command]
        IN  IF pc = args.command THEN calls = <<>>
            ELSE /\ Len(OpCalls(op)) <= 1
                 /\ Returned(args.command) => Len(OpCalls(op)) = 1
                 /\ IF args.is_cid
                    THEN /\ Len(calls) >= 1
                         /\ calls[1].op = "resolve_cid"
                         /\ calls[1].cid = args.cid
                         /\ Len(OpCalls("resolve_cid")) = 1
                         /\ calls[1].outcome # "ok" =>
                              /\ Len(calls) = 1
                              /\ pc = "done"
                              /\ raised = calls[1].outcome
                         /\ \A i \in 1..Len(calls) :
                              calls[i].op = op =>
                                /\ i = 2
                                /\ calls[1].outcome = "ok"
                                /\ <<calls[i].account, calls[i].container>> = calls[1].ret
                    ELSE /\ Len(OpCalls("resolve_cid")) = 0
                         /\ \A i \in 1..Len(calls) :
                              /\ calls[i].op = op
                              /\ calls[i].account = Account
                              /\ calls[i].container = args.container

C16_Witness ==
    /\ Returned("FlushContainer")
    /\ args.is_cid
    /\ args.cid = "c1"
    /\ Len(calls) = 2
    /\ calls[1].op = "resolve_cid"
    /\ calls[1].ret = <<"other", "c2">>
    /\ calls[2].op = "container_flush"
    /\ calls[2].account = "other"
    /\ calls[2].container = "c2"

\* the filters of container list
FilterKeys == {"prefix", "marker", "end_marker", "delimiter", "limit"}

\* kwargs holds exactly the filters the user gave (a filter given empty
\* counts as not given), each with the value given
UserFilters(kwargs) ==
    /\ DOMAIN kwargs \subseteq FilterKeys
    /\ \A k \in FilterKeys :
         IF Truthy(args[k]) THEN k \in DOMAIN kwargs /\ kwargs[k] = args[k]
         ELSE k \notin DOMAIN kwargs

\* C17: in list --no-paging the first container_list call carries the
\* user's filters, --marker included; every later call carries as marker the
\* name of the last entry of the page before it and the other filters as
\* given; when a call is made every entry of the pages before it has been
\* emitted; every page but the last is non-empty and a listing that returns
\* ends on an empty page
C17_MarkerChain ==
    (Running("ListContainer") /\ args.full_listing) =>
        /\ Len(calls) >= 1 => UserFilters(calls[1].kwargs)
        /\ \A i \in 2..Len(calls) :
             LET before == calls[i - 1].page
                 kw == calls[i].kwargs
             IN  /\ before # <<>>
                 /\ "marker" \in DOMAIN kw
                 /\ kw["marker"] = before[Len(before)][1]
                 /\ DOMAIN kw = (DOMAIN calls[1].kwargs) \cup {"marker"}
                 /\ \A k \in (DOMAIN kw) \ {"marker"} : kw[k] = calls[1].kwargs[k]
        /\ Len(calls) >= 1 =>
             /\ Len(rows) >= Len(Concat(SubSeq(calls, 1, Len(calls) - 1)))
             /\ Len(rows) <= Len(Concat(calls))
        /\ Returned("ListContainer") =>
             (Len(calls) >= 1 /\ calls[Len(calls)].page = <<>>)
        /\ (pc = "done" /\ calls[Len(calls)].outcome = "ok") =>
             calls[Len(calls)].page = <<>>

C17_Witness ==
    /\ Returned("ListContainer")
    /\ args.full_listing
    /\ args.marker = "m"
    /\ args.prefix = "p"
    /\ Len(calls) = 3
    /\ calls[1].kwargs["marker"] = "m"
    /\ Len(calls[1].page) = 2
    /\ calls[2].kwargs["marker"] = "e2"
    /\ calls[2].kwargs["prefix"] = "p"
    /\ calls[3].kwargs["marker"] = "e3"
    /\ Len(rows) = 3

\* C18: an unset that has ended has issued one or two calls;
\* container_del_properties is called exactly when a property is listed or
\* no system-reset flag is given, and is then the first call;
\* container_set_properties can only follow it, and when
\* container_del_properties raised it is the only call and the command has
\* ended with its exception
C18_UnsetCallOrder ==
    Running("UnsetContainer") =>
        LET dels == OpCalls("container_del_properties")
            wanted == args.property # <<>> \/ ResetKeys = {}
        IN  IF pc = "UnsetContainer" THEN calls = <<>>
            ELSE /\ Len(dels) = IF wanted THEN 1 ELSE 0
                 /\ Len(calls) <= 2
                 /\ Done("UnsetContainer") => Len(calls) >= 1
                 /\ \A i \in 1..Len(calls) :
                      /\ calls[i].op \in {"container_del_properties",
                                          "container_set_properties"}
                      /\ calls[i].op = "container_del_properties" =>
                           (i = 1 /\ calls[i].properties = args.property)
                      /\ (calls[i].op = "container_set_properties" /\ wanted) =>
                           (i = 2 /\ calls[1].outcome = "ok")
                 /\ DelFailed =>
                      /\ Len(calls) = 1
                      /\ pc = "done"
                      /\ raised = calls[1].outcome

C18_Witness ==
    /\ Done("UnsetContainer")
    /\ args.property = <<"k1">>
    /\ ResetKeys = {M2_PROP_QUOTA}
    /\ Len(calls) = 1
    /\ calls[1].op = "container_del_properties"
    /\ calls[1].outcome = "OioException"
    /\ raised = "OioException"

====
